---- MODULE Spec2Model ----
(***************************************************************************)
(* Model of the retrieval/ingestion glue of morpho-gpt:                    *)
(*   src/src/services/pinecone.ts  (index provisioning, ingestion, query)  *)
(*   src/src/read/routeDiscord.ts  (the read command handler)              *)
(* Strings are modelled as sequences of one-character strings, so that id  *)
(* formatting, the link regular expression and joins are computed the way  *)
(* the code computes them.                                                 *)
(***************************************************************************)
EXTENDS Integers, Sequences, FiniteSets, TLC

VARIABLES
    \* ---- ingestion: updatePineconeIndex / processDocument / upsertVectors
    docs,        \* the docs argument of updatePineconeIndex
    pc,          \* position of the updatePineconeIndex call
    di,          \* 1-based position of the for-of loop over docs
    documentLink,\* processDocument's documentLink of the current document
    vectors,     \* the Vector[] returned by processDocument
    off,         \* upsertVectors' loop variable i (0-based offset)
    store,       \* the vector store's content: the set of stored vectors
    inflight,    \* external calls issued and not yet settled
    calls,       \* batches handed to index.upsert by the current upsertVectors
    trace,       \* external-call events of the current updatePineconeIndex
    logged,      \* the progress lines written by console.log
    run,         \* number of updatePineconeIndex invocations started
    storeAfter,  \* the store's id set and size after each returned invocation
    \* ---- query: handleReadCommand and the query pipeline
    storeResponse,    \* what the vector store answers to index.query
    qpc,              \* position of the handleReadCommand call
    pineconeResponse, \* the response queryPineconeVectorStore returned
    queryResponse,    \* formatPineconeResponse's result
    completionCalls,  \* the contexts handed to chain.call
    result,           \* what the pipeline returned to handleReadCommand
    thrown,           \* the error the pipeline threw, "none" when it did not
    errors,           \* what console.error logged
    sent,             \* the messages sent to message.channel
    \* ---- index provisioning: createPineconeIndexIfNotExist
    indexes,          \* the names of the indexes the service holds
    cpc,              \* position of the createPineconeIndexIfNotExist call
    args,             \* its arguments indexName, vectorDimension, timeout
    existingIndexes,  \* the list client.listIndexes() returned
    ctrace,           \* the external calls and timer of the current call
    ncalls            \* number of calls started

ingestVars == <<docs, pc, di, documentLink, vectors, off, store, inflight,
                calls, trace, logged, run, storeAfter>>

queryVars == <<storeResponse, qpc, pineconeResponse, queryResponse,
               completionCalls, result, thrown, errors, sent>>

indexVars == <<indexes, cpc, args, existingIndexes, ctrace, ncalls>>

vars == <<ingestVars, queryVars, indexVars>>

\* -------------------------------------------------------------- bounds
MaxChunks == 201     \* most chunks the splitter returns for one document
MaxDocs == 2         \* longest docs list
MaxRuns == 2         \* invocations of updatePineconeIndex on the same docs

\* ------------------------------------------------------ program constants
batchSize == 100     \* upsertVectors: const batchSize = 100
MaxShownLinks == 3   \* handleReadCommand: distinctDocumentLinks.slice(0, 3)
DefaultTimeout == 180000 \* createPineconeIndexIfNotExist: timeout = 180000

\* ------------------------------------------------------------- strings
Min(a, b) == IF a < b THEN a ELSE b

DigitChar == <<"0", "1", "2", "3", "4", "5", "6", "7", "8", "9">>

\* `${idx}` : a non-negative integer rendered in decimal
RECURSIVE Decimal(_)
Decimal(n) ==
    IF n < 10 THEN <<DigitChar[n + 1]>>
    ELSE Decimal(n \div 10) \o <<DigitChar[(n % 10) + 1]>>

\* a mutated id: path and index concatenated with no separator
VectorIdNoSeparator(txtPath, idx) == txtPath \o Decimal(idx)

\* id: `${txtPath}_${idx}`
VectorId(txtPath, idx) == txtPath \o <<"_">> \o Decimal(idx)

\* a mutated slice whose end index is inclusive
SliceInclusive(s, from, to) == SubSeq(s, from + 1, Min(to + 1, Len(s)))

\* Array.prototype.slice(from, to) on a 0-based array held as a 1-based sequence
Slice(s, from, to) == SubSeq(s, from + 1, Min(to, Len(s)))

\* ------------------------------------------------ the link expression
LinkMarker == <<"L", "i", "n", "k", ":", " ">>

\* the characters "." does not match in a JavaScript regular expression
LineTerminators == {"\n", "\r", "LS", "PS"}

\* /Link: (.+)/ can match with "Link: " starting at position i
MatchesAt(text, i) ==
    /\ i + Len(LinkMarker) <= Len(text)
    /\ SubSeq(text, i, i + Len(LinkMarker) - 1) = LinkMarker
    /\ text[i + Len(LinkMarker)] \notin LineTerminators

\* the end of the greedy (.+) that starts at position from
RECURSIVE CaptureEnd(_, _)
CaptureEnd(text, from) ==
    IF from < Len(text) /\ text[from + 1] \notin LineTerminators
    THEN CaptureEnd(text, from + 1)
    ELSE from

\* a mutated match that takes the rightmost occurrence
LinkMatchLast(text) ==
    LET at == {i \in 1..Len(text) : MatchesAt(text, i)}
    IN  IF at = {} THEN [found |-> FALSE, group |-> <<>>]
        ELSE LET i == CHOOSE k \in at : \A j \in at : k >= j
                 from == i + Len(LinkMarker)
             IN  [found |-> TRUE,
                  group |-> SubSeq(text, from, CaptureEnd(text, from))]

\* text.match(/Link: (.+)/) : the leftmost match, or null (here <<>> with found FALSE)
LinkMatch(text) ==
    LET at == {i \in 1..Len(text) : MatchesAt(text, i)}
    IN  IF at = {} THEN [found |-> FALSE, group |-> <<>>]
        ELSE LET i == CHOOSE k \in at : \A j \in at : k <= j
                 from == i + Len(LinkMarker)
             IN  [found |-> TRUE,
                  group |-> SubSeq(text, from, CaptureEnd(text, from))]

\* documentLinkMatch ? documentLinkMatch[1] : ""
ExtractDocumentLink(text) ==
    LET documentLinkMatch == LinkMatch(text)
    IN  IF documentLinkMatch.found THEN documentLinkMatch.group ELSE <<>>

\* ---------------------------------------------------------- ingestion
\* A Document: metadata.source, pageContent, and the number of chunks the
\* (external, deterministic) RecursiveCharacterTextSplitter returns for it.
Doc(source, pageContent, nChunks) ==
    [source |-> source, pageContent |-> pageContent, nChunks |-> nChunks]

\* chunks.map((chunk, idx) => ({id, values, metadata: {..., txtPath, docLink}}))
BuildVectors(doc, link) ==
    [k \in 1..doc.nChunks |->
        [id |-> VectorId(doc.source, k - 1),
         txtPath |-> doc.source,
         chunk |-> k - 1,
         docLink |-> link]]

\* the store's upsert: insert or overwrite by id, the last of equal ids winning
Upserted(st, batch) ==
    LET last == {k \in DOMAIN batch :
                    \A j \in DOMAIN batch : batch[j].id = batch[k].id => j <= k}
        ids == {batch[k].id : k \in DOMAIN batch}
    IN  {v \in st : v.id \notin ids} \cup {batch[k] : k \in last}

Ids(st) == {v.id : v \in st}

Event(ev, d, o) == [ev |-> ev, doc |-> d, off |-> o]

\* updatePineconeIndex is called (again) with the same docs
updatePineconeIndex ==
    /\ pc \in {"idle", "done"}
    /\ run < MaxRuns
    /\ run' = run + 1
    /\ pc' = "loop"
    /\ di' = 1
    /\ trace' = <<>>
    /\ calls' = <<>>
    /\ logged' = <<>>
    /\ vectors' = <<>>
    /\ off' = 0
    /\ documentLink' = <<>>
    /\ UNCHANGED <<docs, store, inflight, storeAfter>>
    /\ UNCHANGED <<queryVars, indexVars>>

\* processDocument up to the await of embedDocuments
processDocument ==
    /\ pc = "loop"
    /\ di <= Len(docs)
    /\ documentLink' = ExtractDocumentLink(docs[di].pageContent)
    /\ inflight' = inflight \cup {Event("embed", di, 0)}
    /\ trace' = Append(trace, Event("embed", di, 0))
    /\ pc' = "embedding"
    /\ UNCHANGED <<docs, di, vectors, off, store, calls, logged, run, storeAfter>>
    /\ UNCHANGED <<queryVars, indexVars>>

\* embedDocuments resolves: processDocument returns the vectors and
\* upsertVectors starts with i = 0
processDocumentReturn ==
    /\ pc = "embedding"
    /\ inflight' = inflight \ {Event("embed", di, 0)}
    /\ trace' = Append(trace, Event("embedEnd", di, 0))
    /\ vectors' = BuildVectors(docs[di], documentLink)
    /\ off' = 0
    /\ calls' = <<>>
    /\ pc' = "upsert"
    /\ UNCHANGED <<docs, di, documentLink, store, logged, run, storeAfter>>
    /\ UNCHANGED <<queryVars, indexVars>>

\* the splitter or embedDocuments rejects: the error leaves updatePineconeIndex
processDocumentThrow ==
    /\ pc = "embedding"
    /\ inflight' = inflight \ {Event("embed", di, 0)}
    /\ trace' = Append(trace, Event("embedFail", di, 0))
    /\ pc' = "failed"
    /\ UNCHANGED <<docs, di, documentLink, vectors, off, store, calls, logged,
                   run, storeAfter>>
    /\ UNCHANGED <<queryVars, indexVars>>

\* a mutated loop step: index.upsert is issued without being awaited
upsertVectorsNoAwait ==
    /\ pc = "upsert"
    /\ off < Len(vectors)
    /\ calls' = Append(calls, Slice(vectors, off, off + batchSize))
    /\ inflight' = inflight \cup {Event("upsert", di, off)}
    /\ trace' = Append(trace, Event("upsert", di, off))
    /\ off' = off + batchSize
    /\ pc' = "upsert"
    /\ UNCHANGED <<docs, di, documentLink, vectors, store, logged, run, storeAfter>>
    /\ UNCHANGED <<queryVars, indexVars>>

\* one loop step of upsertVectors up to the await of index.upsert
upsertVectors ==
    /\ pc = "upsert"
    /\ off < Len(vectors)
    /\ LET batch == Slice(vectors, off, off + batchSize)
       IN  calls' = Append(calls, batch)
    /\ inflight' = inflight \cup {Event("upsert", di, off)}
    /\ trace' = Append(trace, Event("upsert", di, off))
    /\ pc' = "upserting"
    /\ UNCHANGED <<docs, di, documentLink, vectors, off, store, logged, run,
                   storeAfter>>
    /\ UNCHANGED <<queryVars, indexVars>>

\* index.upsert resolves: the batch is stored and the loop does i += batchSize
upsertResolve ==
    /\ pc = "upserting"
    /\ store' = Upserted(store, calls[Len(calls)])
    /\ inflight' = inflight \ {Event("upsert", di, off)}
    /\ trace' = Append(trace, Event("upsertEnd", di, off))
    /\ off' = off + batchSize
    /\ pc' = "upsert"
    /\ UNCHANGED <<docs, di, documentLink, vectors, calls, logged, run, storeAfter>>
    /\ UNCHANGED <<queryVars, indexVars>>

\* a mutated rejection: the error is swallowed and the loop goes on
upsertRejectSwallowed ==
    /\ pc = "upserting"
    /\ inflight' = inflight \ {Event("upsert", di, off)}
    /\ trace' = Append(trace, Event("upsertFail", di, off))
    /\ off' = off + batchSize
    /\ pc' = "upsert"
    /\ UNCHANGED <<docs, di, documentLink, vectors, store, calls, logged, run,
                   storeAfter>>
    /\ UNCHANGED <<queryVars, indexVars>>

\* index.upsert rejects: the error leaves upsertVectors and updatePineconeIndex
upsertReject ==
    /\ pc = "upserting"
    /\ inflight' = inflight \ {Event("upsert", di, off)}
    /\ trace' = Append(trace, Event("upsertFail", di, off))
    /\ pc' = "failed"
    /\ UNCHANGED <<docs, di, documentLink, vectors, off, store, calls, logged,
                   run, storeAfter>>
    /\ UNCHANGED <<queryVars, indexVars>>

\* upsertVectors' loop ends; updatePineconeIndex logs and takes the next doc
upsertVectorsReturn ==
    /\ pc = "upsert"
    /\ off >= Len(vectors)
    /\ logged' = Append(logged, [i |-> di, of |-> Len(docs), n |-> Len(vectors)])
    /\ di' = di + 1
    /\ pc' = "loop"
    /\ UNCHANGED <<docs, documentLink, vectors, off, store, inflight, calls,
                   trace, run, storeAfter>>
    /\ UNCHANGED <<queryVars, indexVars>>

\* the for-of loop is exhausted: updatePineconeIndex resolves
updatePineconeIndexReturn ==
    /\ pc = "loop"
    /\ di > Len(docs)
    /\ pc' = "done"
    /\ storeAfter' = Append(storeAfter, [ids |-> Ids(store), count |-> Cardinality(store)])
    /\ UNCHANGED <<docs, di, documentLink, vectors, off, store, inflight, calls,
                   trace, logged, run>>
    /\ UNCHANGED <<queryVars, indexVars>>

NextIngest ==
    \/ updatePineconeIndex
    \/ processDocument
    \/ processDocumentReturn
    \/ processDocumentThrow
    \/ upsertVectors
    \/ upsertResolve
    \/ upsertReject
    \/ upsertVectorsReturn
    \/ updatePineconeIndexReturn

\* -------------------------------------------------------------- query
\* Values a metadata field can hold besides a string: the field is missing
\* (Absent), or present and null (Null).
Absent == <<"absent">>
Null == <<"null">>

\* A match of the vector store's response.  metadata always has the three
\* fields below; a missing field (or a missing metadata object) is Absent.
Match(id, pageContent, docLink, txtPath) ==
    [id |-> id,
     metadata |-> [pageContent |-> pageContent, docLink |-> docLink,
                   txtPath |-> txtPath]]

\* "f" in metadata
HasField(md, f) == md[f] # Absent

\* match.metadata?.f ?? ""
FieldOrEmpty(md, f) == IF md[f] \in {Absent, Null} THEN <<>> ELSE md[f]

\* a response: the matches field may be missing
Response(hasMatches, matches) == [hasMatches |-> hasMatches, matches |-> matches]

NoResponse == Response(FALSE, <<>>)

\* a mutated reshaping that drops the matches it cannot normalise
formatPineconeResponseDropping(resp) ==
    LET keep == {k \in DOMAIN resp.matches :
                    /\ HasField(resp.matches[k].metadata, "pageContent")
                    /\ HasField(resp.matches[k].metadata, "docLink")}
        F[k \in 0..Len(resp.matches)] ==
            IF k = 0 THEN <<>>
            ELSE IF k \in keep THEN Append(F[k - 1], resp.matches[k]) ELSE F[k - 1]
    IN  Response(resp.hasMatches, F[Len(resp.matches)])

\* formatPineconeResponse: metadata holding both pageContent and docLink is
\* cut down to those two fields; any other match is passed through
formatPineconeResponse(resp) ==
    Response(resp.hasMatches,
        [k \in DOMAIN resp.matches |->
            LET match == resp.matches[k]
            IN  IF /\ HasField(match.metadata, "pageContent")
                   /\ HasField(match.metadata, "docLink")
                THEN [match EXCEPT !.metadata =
                        [pageContent |-> match.metadata.pageContent,
                         docLink |-> match.metadata.docLink,
                         txtPath |-> Absent]]
                ELSE match])

\* a mutated test that only asks whether the matches field is there
HasMatchesDefined(qr) == qr.hasMatches

\* queryResponse?.matches?.length
HasMatches(qr) == qr.hasMatches /\ Len(qr.matches) > 0

\* Array.prototype.join(" ")
RECURSIVE Join(_)
Join(ss) ==
    IF ss = <<>> THEN <<>>
    ELSE IF Len(ss) = 1 THEN ss[1]
    ELSE ss[1] \o <<" ">> \o Join(Tail(ss))

\* matches.map((match) => match.metadata?.pageContent ?? "").join(" ")
ConcatenatedPageContent(qr) ==
    Join([k \in DOMAIN qr.matches |-> FieldOrEmpty(qr.matches[k].metadata, "pageContent")])

\* matches.map((match) => match.metadata?.docLink ?? "")
DocumentLinks(qr) ==
    [k \in DOMAIN qr.matches |-> FieldOrEmpty(qr.matches[k].metadata, "docLink")]

\* the completion endpoint's text
AnswerText == <<"o", "k">>

Undefined == [defined |-> FALSE, answer |-> <<>>, documentLinks |-> <<>>]

\* [...new Set(links)] : the distinct values in order of first occurrence
RECURSIVE Distinct(_)
Distinct(links) ==
    IF links = <<>> THEN <<>>
    ELSE LET init == Distinct(SubSeq(links, 1, Len(links) - 1))
             x == links[Len(links)]
         IN  IF \E k \in DOMAIN init : init[k] = x THEN init ELSE Append(init, x)

\* a mutated selection: the first three links, then made distinct
TopLinksSliceFirst(links) == Distinct(Slice(links, 0, MaxShownLinks))

\* [...new Set(result.documentLinks)].slice(0, 3)
TopLinks(links) == Slice(Distinct(links), 0, MaxShownLinks)

\* documentLinks.map((link, index) => `**Link ${index + 1}:** <${link}>`)
RenderLinks(links) == [k \in DOMAIN links |-> [n |-> k, url |-> links[k]]]

AnswerTemplate == "\n**Answer:**\n ${result.answer}\n**Useful resources:**\n${linksString}"

AnswerMessage(answer, links) ==
    [text |-> AnswerTemplate, answer |-> answer, links |-> RenderLinks(links)]

NoResultMessage ==
    [text |-> "No results found for your query.", answer |-> <<>>, links |-> <<>>]

ErrorMessage ==
    [text |-> "An error occurred while processing your request.",
     answer |-> <<>>, links |-> <<>>]

\* handleReadCommand is called: the pipeline starts and awaits embedQuery
handleReadCommand ==
    /\ qpc = "idle"
    /\ qpc' = "embedQuery"
    /\ UNCHANGED <<storeResponse, pineconeResponse, queryResponse,
                   completionCalls, result, thrown, errors, sent>>
    /\ UNCHANGED <<ingestVars, indexVars>>

\* embedQuery resolves: queryPineconeVectorStore awaits index.query
queryPineconeVectorStore ==
    /\ qpc = "embedQuery"
    /\ qpc' = "query"
    /\ UNCHANGED <<storeResponse, pineconeResponse, queryResponse,
                   completionCalls, result, thrown, errors, sent>>
    /\ UNCHANGED <<ingestVars, indexVars>>

\* embedQuery rejects
embedQueryReject ==
    /\ qpc = "embedQuery"
    /\ thrown' = "EmbeddingError"
    /\ qpc' = "caught"
    /\ UNCHANGED <<storeResponse, pineconeResponse, queryResponse,
                   completionCalls, result, errors, sent>>
    /\ UNCHANGED <<ingestVars, indexVars>>

\* index.query rejects
queryReject ==
    /\ qpc = "query"
    /\ thrown' = "QueryError"
    /\ qpc' = "caught"
    /\ UNCHANGED <<storeResponse, pineconeResponse, queryResponse,
                   completionCalls, result, errors, sent>>
    /\ UNCHANGED <<ingestVars, indexVars>>

\* index.query resolves; the pipeline reshapes the response and calls
\* queryLanguageModelWithPineconeResponse, which either awaits chain.call
\* or returns undefined
queryPineconeVectorStoreAndQueryLLM ==
    /\ qpc = "query"
    /\ pineconeResponse' = storeResponse
    /\ queryResponse' = formatPineconeResponse(pineconeResponse')
    /\ IF HasMatches(queryResponse')
       THEN /\ completionCalls' =
                  Append(completionCalls, ConcatenatedPageContent(queryResponse'))
            /\ qpc' = "completion"
            /\ result' = result
       ELSE /\ completionCalls' = completionCalls
            /\ result' = Undefined
            /\ qpc' = "returned"
    /\ UNCHANGED <<storeResponse, thrown, errors, sent>>
    /\ UNCHANGED <<ingestVars, indexVars>>

\* chain.call resolves: queryLanguageModelWithPineconeResponse returns
queryLanguageModelWithPineconeResponse ==
    /\ qpc = "completion"
    /\ result' = [defined |-> TRUE, answer |-> AnswerText,
                  documentLinks |-> DocumentLinks(queryResponse)]
    /\ qpc' = "returned"
    /\ UNCHANGED <<storeResponse, pineconeResponse, queryResponse,
                   completionCalls, thrown, errors, sent>>
    /\ UNCHANGED <<ingestVars, indexVars>>

\* chain.call rejects
chainCallReject ==
    /\ qpc = "completion"
    /\ thrown' = "CompletionError"
    /\ qpc' = "caught"
    /\ UNCHANGED <<storeResponse, pineconeResponse, queryResponse,
                   completionCalls, result, errors, sent>>
    /\ UNCHANGED <<ingestVars, indexVars>>

\* the pipeline returned: handleReadCommand sends the answer or "no results"
handleReadCommandReply ==
    /\ qpc = "returned"
    /\ sent' = Append(sent,
                  IF result.defined
                  THEN AnswerMessage(result.answer, TopLinks(result.documentLinks))
                  ELSE NoResultMessage)
    /\ qpc' = "done"
    /\ UNCHANGED <<storeResponse, pineconeResponse, queryResponse,
                   completionCalls, result, thrown, errors>>
    /\ UNCHANGED <<ingestVars, indexVars>>

\* a mutated catch block that logs and sends nothing
handleReadCommandCatchSilent ==
    /\ qpc = "caught"
    /\ errors' = Append(errors, thrown)
    /\ qpc' = "done"
    /\ UNCHANGED <<storeResponse, pineconeResponse, queryResponse,
                   completionCalls, result, thrown, sent>>
    /\ UNCHANGED <<ingestVars, indexVars>>

\* the pipeline threw: handleReadCommand logs the error and sends the fixed message
handleReadCommandCatch ==
    /\ qpc = "caught"
    /\ errors' = Append(errors, thrown)
    /\ sent' = Append(sent, ErrorMessage)
    /\ qpc' = "done"
    /\ UNCHANGED <<storeResponse, pineconeResponse, queryResponse,
                   completionCalls, result, thrown>>
    /\ UNCHANGED <<ingestVars, indexVars>>

NextQuery ==
    \/ handleReadCommand
    \/ queryPineconeVectorStore
    \/ embedQueryReject
    \/ queryReject
    \/ queryPineconeVectorStoreAndQueryLLM
    \/ queryLanguageModelWithPineconeResponse
    \/ chainCallReject
    \/ handleReadCommandReply
    \/ handleReadCommandCatch

\* ------------------------------------------------- index provisioning
MaxCalls == 2        \* calls of createPineconeIndexIfNotExist in a row

IndexNames == {"docs", "test", "prod"}

CEvent(ev, name, dimension, metric, ms) ==
    [ev |-> ev, name |-> name, dimension |-> dimension, metric |-> metric, ms |-> ms]

NoArgs == [indexName |-> "", vectorDimension |-> 0, timeout |-> 0]

\* createPineconeIndexIfNotExist is called and awaits client.listIndexes()
createPineconeIndexIfNotExist ==
    /\ cpc \in {"idle", "returned"}
    /\ ncalls < MaxCalls
    /\ \E name \in IndexNames, dimension \in {2, 1536}, timeout \in {1000, DefaultTimeout} :
          args' = [indexName |-> name, vectorDimension |-> dimension,
                   timeout |-> timeout]
    /\ ncalls' = ncalls + 1
    /\ existingIndexes' = {}
    /\ ctrace' = <<CEvent("listIndexes", "", 0, "", 0)>>
    /\ cpc' = "listing"
    /\ UNCHANGED indexes
    /\ UNCHANGED <<ingestVars, queryVars>>

\* client.listIndexes() rejects
listIndexesReject ==
    /\ cpc = "listing"
    /\ cpc' = "thrown"
    /\ UNCHANGED <<indexes, args, existingIndexes, ctrace, ncalls>>
    /\ UNCHANGED <<ingestVars, queryVars>>

\* a mutated test that creates the index when it is listed
listIndexesResolveInverted ==
    /\ cpc = "listing"
    /\ existingIndexes' = indexes
    /\ IF args.indexName \in existingIndexes'
       THEN /\ ctrace' = Append(ctrace, CEvent("createIndex", args.indexName,
                                               args.vectorDimension, "cosine", 0))
            /\ cpc' = "creating"
       ELSE /\ ctrace' = Append(ctrace, CEvent("return", "", 0, "", 0))
            /\ cpc' = "returned"
    /\ UNCHANGED <<indexes, args, ncalls>>
    /\ UNCHANGED <<ingestVars, queryVars>>

\* client.listIndexes() resolves: the index is created when its name is not
\* listed, and the call returns at once when it is
listIndexesResolve ==
    /\ cpc = "listing"
    /\ existingIndexes' = indexes
    /\ IF args.indexName \notin existingIndexes'
       THEN /\ ctrace' = Append(ctrace, CEvent("createIndex", args.indexName,
                                               args.vectorDimension, "cosine", 0))
            /\ cpc' = "creating"
       ELSE /\ ctrace' = Append(ctrace, CEvent("return", "", 0, "", 0))
            /\ cpc' = "returned"
    /\ UNCHANGED <<indexes, args, ncalls>>
    /\ UNCHANGED <<ingestVars, queryVars>>

\* client.createIndex() rejects
createIndexReject ==
    /\ cpc = "creating"
    /\ cpc' = "thrown"
    /\ UNCHANGED <<indexes, args, existingIndexes, ctrace, ncalls>>
    /\ UNCHANGED <<ingestVars, queryVars>>

\* client.createIndex() resolves: the timer of timeout ms is set
createIndexResolve ==
    /\ cpc = "creating"
    /\ indexes' = indexes \cup {args.indexName}
    /\ cpc' = "waiting"
    /\ UNCHANGED <<args, existingIndexes, ctrace, ncalls>>
    /\ UNCHANGED <<ingestVars, queryVars>>

\* the timer fires after timeout ms: the call returns
timeoutElapsed ==
    /\ cpc = "waiting"
    /\ ctrace' = ctrace \o <<CEvent("wait", "", 0, "", args.timeout),
                             CEvent("return", "", 0, "", 0)>>
    /\ cpc' = "returned"
    /\ UNCHANGED <<indexes, args, existingIndexes, ncalls>>
    /\ UNCHANGED <<ingestVars, queryVars>>

NextIndex ==
    \/ createPineconeIndexIfNotExist
    \/ listIndexesReject
    \/ listIndexesResolve
    \/ createIndexReject
    \/ createIndexResolve
    \/ timeoutElapsed

\* ------------------------------------------- nothing has been called
IngestIdle ==
    /\ pc = "idle"
    /\ di = 1
    /\ documentLink = <<>>
    /\ vectors = <<>>
    /\ off = 0
    /\ inflight = {}
    /\ calls = <<>>
    /\ trace = <<>>
    /\ logged = <<>>
    /\ run = 0
    /\ storeAfter = <<>>

QueryIdle ==
    /\ storeResponse = NoResponse
    /\ qpc = "idle"
    /\ pineconeResponse = NoResponse
    /\ queryResponse = NoResponse
    /\ completionCalls = <<>>
    /\ result = Undefined
    /\ thrown = "none"
    /\ errors = <<>>
    /\ sent = <<>>

IndexIdle ==
    /\ indexes = {}
    /\ cpc = "idle"
    /\ args = NoArgs
    /\ existingIndexes = {}
    /\ ctrace = <<>>
    /\ ncalls = 0

\* ---------------------------------------------------------- query inputs
MaxMatches == 3      \* longest response with mixed metadata shapes
MaxLinked == 5       \* longest response of fully described matches

LinkA == <<"a">>
LinkB == <<"b">>
LinkC == <<"c">>
LinkD == <<"d">>
PageP == <<"p">>
PageQ == <<"q", "q">>

\* the metadata shapes of a match: each field missing or set, one extra
\* field, one null link, and no usable metadata at all
Shapes ==
    {<<pg, dl, Absent>> : pg \in {Absent, PageP, PageQ}, dl \in {Absent, LinkA, LinkB}}
    \cup {<<PageP, LinkA, <<"t">>>>, <<PageP, Null, Absent>>}

\* a response of n matches whose metadata shapes are f[1], ..., f[n]
MixedResponse(n, f) ==
    Response(TRUE, [k \in 1..n |-> Match(k, f[k][1], f[k][2], f[k][3])])

\* a response of n matches with page content and the links f[1], ..., f[n]
LinkedResponse(n, f) ==
    Response(TRUE, [k \in 1..n |-> Match(k, PageP, f[k], Absent)])

\* the responses the vector store may give: no matches field, up to
\* MaxMatches matches of any shape, or up to MaxLinked fully described ones
IsResponse(r) ==
    \/ r = NoResponse
    \/ \E n \in 0..MaxMatches : \E f \in [1..n -> Shapes] : r = MixedResponse(n, f)
    \/ \E n \in (MaxMatches + 1)..MaxLinked :
          \E f \in [1..n -> {LinkA, LinkB, LinkC, LinkD}] : r = LinkedResponse(n, f)

InitQuery ==
    /\ IsResponse(storeResponse)
    /\ qpc = "idle"
    /\ pineconeResponse = NoResponse
    /\ queryResponse = NoResponse
    /\ completionCalls = <<>>
    /\ result = Undefined
    /\ thrown = "none"
    /\ errors = <<>>
    /\ sent = <<>>
    /\ docs = <<>>
    /\ store = {}
    /\ IngestIdle
    /\ IndexIdle

SpecQuery == InitQuery /\ [][NextQuery]_vars

\* -------------------------------------------- index provisioning inputs
InitIndex ==
    /\ indexes \in SUBSET IndexNames
    /\ cpc = "idle"
    /\ args = NoArgs
    /\ existingIndexes = {}
    /\ ctrace = <<>>
    /\ ncalls = 0
    /\ docs = <<>>
    /\ store = {}
    /\ IngestIdle
    /\ QueryIdle

SpecIndex == InitIndex /\ [][NextIndex]_vars

\* ------------------------------------------------------ ingestion inputs
Paths == {<<"a">>, <<"a", "1">>, <<"a", "_", "1">>}

PlainText == <<"h", "i">>
LinkedText == LinkMarker \o <<"u">> \o <<"\n">> \o <<"h", "i">>

\* one document with every chunk count, or several with a few counts
SingleDocs == {Doc(<<"a">>, t, n) : t \in {PlainText, LinkedText}, n \in 0..MaxChunks}

SeveralDocs ==
    {Doc(p, LinkedText, n) : p \in Paths, n \in {0, 11}}
    \cup {Doc(<<"a">>, PlainText, 11), Doc(<<"a">>, LinkedText, batchSize + 1)}

DocLists ==
    {<<d>> : d \in SingleDocs}
    \cup UNION {[1..len -> SeveralDocs] : len \in {0} \cup 2..MaxDocs}

\* vectors left by an earlier ingestion: one the run overwrites, one it never touches
StaleVector == [id |-> VectorId(<<"a">>, 0), txtPath |-> <<"a">>, chunk |-> 0,
                docLink |-> <<"o", "l", "d">>]
ForeignVector == [id |-> VectorId(<<"z">>, 3), txtPath |-> <<"z">>, chunk |-> 3,
                  docLink |-> <<>>]
InitialStores == {{}, {StaleVector, ForeignVector}}

InitIngest ==
    /\ docs \in DocLists
    /\ store \in InitialStores
    /\ IngestIdle
    /\ QueryIdle
    /\ IndexIdle

SpecIngest == InitIngest /\ [][NextIngest]_vars

\* ------------------------------------------- inputs for link extraction
MaxPieces == 5       \* longest document text, in pieces

Pieces == {LinkMarker, <<"x">>, <<"\n">>, <<"\r">>, <<" ">>}

RECURSIVE Flatten(_)
Flatten(ss) == IF ss = <<>> THEN <<>> ELSE Head(ss) \o Flatten(Tail(ss))

LinkTexts == {Flatten(ps) : ps \in UNION {[1..n -> Pieces] : n \in 0..MaxPieces}}

InitLink ==
    /\ docs \in {<<Doc(<<"a">>, t, 2)>> : t \in LinkTexts}
    /\ store = {}
    /\ IngestIdle
    /\ QueryIdle
    /\ IndexIdle

SpecLink == InitLink /\ [][NextIngest]_vars

\* ======================================================== properties
Range(s) == {s[k] : k \in DOMAIN s}

Ceil(a, b) == (a + b - 1) \div b

\* a completed upsertVectors call: its vectors and calls are still in the state
UpsertVectorsReturned ==
    /\ pc \in {"loop", "embedding", "done"}
    /\ Len(logged) >= 1

\* C1: upsertVectors sends its vectors in batches of 1..batchSize that,
\* concatenated in call order, are a prefix of the input list; when it
\* returns (no call failed) it has made exactly ceil(L/batchSize) calls and
\* the concatenation is the whole list.
C1_Batching ==
    /\ \A k \in DOMAIN calls : Len(calls[k]) >= 1 /\ Len(calls[k]) <= batchSize
    /\ LET flat == Flatten(calls)
       IN  /\ flat = SubSeq(vectors, 1, Len(flat))
           /\ UpsertVectorsReturned =>
                 /\ Len(calls) = Ceil(Len(vectors), batchSize)
                 /\ flat = vectors

C1_Witness ==
    /\ UpsertVectorsReturned
    /\ Len(vectors) = 2 * batchSize
    /\ Len(calls) = 2

\* C5: every vector id is "<sourcePath>_<chunkIndex>" and two vectors with
\* the same id have the same source path and chunk index; every later run of
\* updatePineconeIndex on the same docs sends only ids the first run left in
\* the store, and leaves the store with the same id set and the same count.
C5_Idempotent ==
    /\ LET all == store \cup Range(vectors)
       IN  /\ \A v \in all : v.id = v.txtPath \o <<"_">> \o Decimal(v.chunk)
           /\ Cardinality({v.id : v \in all}) =
                  Cardinality({<<v.txtPath, v.chunk>> : v \in all})
    /\ \A k \in DOMAIN storeAfter : storeAfter[k] = storeAfter[1]
    /\ (storeAfter # <<>> /\ run >= 2) =>
          \A k \in DOMAIN calls : \A j \in DOMAIN calls[k] :
              calls[k][j].id \in storeAfter[1].ids

C5_Witness ==
    /\ Len(storeAfter) = 2
    /\ Len(docs) = 2
    /\ docs[1].source = docs[2].source
    /\ docs[1].nChunks > docs[2].nChunks
    /\ ForeignVector \in store
    /\ Cardinality(store) = docs[1].nChunks + 1

\* the lines of a text: the maximal runs free of line terminators
RECURSIVE Lines(_)
Lines(text) ==
    LET brk == {i \in 1..Len(text) : text[i] \in LineTerminators}
    IN  IF brk = {} THEN <<text>>
        ELSE LET i == CHOOSE k \in brk : \A j \in brk : k <= j
             IN  <<SubSeq(text, 1, i - 1)>> \o Lines(SubSeq(text, i + 1, Len(text)))

\* the places of a line where "Link: " stands with at least one character after it
MarkersIn(line) ==
    {i \in 1..Len(line) :
        /\ i + Len(LinkMarker) <= Len(line)
        /\ SubSeq(line, i, i + Len(LinkMarker) - 1) = LinkMarker}

\* the rest of the first line holding "Link: <rest>", or the empty string
LinkOfFirstLine(text) ==
    LET ls == Lines(text)
        hit == {n \in DOMAIN ls : MarkersIn(ls[n]) # {}}
    IN  IF hit = {} THEN <<>>
        ELSE LET n == CHOOSE k \in hit : \A j \in hit : k <= j
                 i == CHOOSE k \in MarkersIn(ls[n]) : \A j \in MarkersIn(ls[n]) : k <= j
             IN  SubSeq(ls[n], i + Len(LinkMarker), Len(ls[n]))

\* C6: the link processDocument extracts is the rest of the first line that
\* holds "Link: " followed by at least one character (the empty string when
\* no line does), and every vector of the document carries it as docLink.
C6_DocumentLink ==
    /\ pc \in {"embedding", "upsert", "upserting"} =>
          documentLink = LinkOfFirstLine(docs[di].pageContent)
    /\ pc \in {"upsert", "upserting"} =>
          \A k \in DOMAIN vectors :
              vectors[k].docLink = LinkOfFirstLine(docs[di].pageContent)

C6_Witness ==
    /\ pc = "upsert"
    /\ Len(vectors) = 2
    /\ docs[1].pageContent =
          LinkMarker \o <<"x">> \o <<"\n">> \o LinkMarker \o <<" ">>
    /\ vectors[2].docLink = <<"x">>

\* C7: a rejected upsert is the last external call of the invocation: the
\* error has left updatePineconeIndex, the call was made once, nothing is
\* logged for the document, and the batches sent before it are in the store.
C7_UpsertFailure ==
    \A p \in DOMAIN trace :
        trace[p].ev = "upsertFail" =>
            /\ p = Len(trace)
            /\ pc = "failed"
            /\ Len(logged) = trace[p].doc - 1
            /\ Cardinality({q \in DOMAIN trace :
                               /\ trace[q].ev = "upsert"
                               /\ trace[q].doc = trace[p].doc
                               /\ trace[q].off = trace[p].off}) = 1
            /\ \A k \in 1..(Len(calls) - 1) : Range(calls[k]) \subseteq store

C7_Witness ==
    /\ pc = "failed"
    /\ Len(docs) = 2
    /\ di = 1
    /\ Len(calls) = 2
    /\ trace[Len(trace)].ev = "upsertFail"
    /\ Range(calls[1]) \subseteq store

CountBefore(p, evs) == Cardinality({q \in 1..(p - 1) : trace[q].ev \in evs})

\* C10: documents are embedded in input order, each only after every upsert
\* of the documents before it has settled; a document's batches are sent in
\* increasing chunk order; at most one call is outstanding, and an
\* outstanding upsert carries at most batchSize vectors.
C10_Sequential ==
    /\ Cardinality(inflight) <= 1
    /\ \A c \in inflight :
          c.ev = "upsert" => pc = "upserting" /\ Len(calls[Len(calls)]) <= batchSize
    /\ \A p \in DOMAIN trace :
          /\ trace[p].ev = "embed" =>
                /\ trace[p].doc = 1 + CountBefore(p, {"embed"})
                /\ CountBefore(p, {"upsert"}) = CountBefore(p, {"upsertEnd"})
                /\ \A q \in 1..(p - 1) : trace[q].doc < trace[p].doc
          /\ trace[p].ev = "upsert" =>
                /\ CountBefore(p, {"upsert"}) =
                      CountBefore(p, {"upsertEnd", "upsertFail"})
                /\ \A q \in 1..(p - 1) :
                      /\ trace[q].doc <= trace[p].doc
                      /\ (trace[q].ev = "upsert" /\ trace[q].doc = trace[p].doc)
                            => trace[q].off < trace[p].off
    /\ LET flat == Flatten(calls)
       IN  \A k \in DOMAIN flat : flat[k].chunk = k - 1

C10_Witness ==
    /\ pc = "upserting"
    /\ di = 2
    /\ off = batchSize
    /\ Len(trace) = 9

\* the vector store's answer to this question has no match
ZeroMatches == ~storeResponse.hasMatches \/ storeResponse.matches = <<>>

\* C2: when the vector store's response has zero matches (an empty list or
\* no matches field) no completion call is made and the pipeline returns
\* undefined; a completion call is made only when there is a match.
C2_NoMatchNoCompletion ==
    /\ ZeroMatches =>
          /\ completionCalls = <<>>
          /\ qpc # "completion"
          /\ (qpc \in {"returned", "done"} /\ thrown = "none") => result = Undefined
    /\ completionCalls # <<>> =>
          storeResponse.hasMatches /\ Len(storeResponse.matches) >= 1

C2_Witness ==
    /\ qpc = "returned"
    /\ storeResponse.hasMatches
    /\ storeResponse.matches = <<>>
    /\ result = Undefined
    /\ completionCalls = <<>>

\* C3: handleReadCommand sends nothing before the pipeline has settled and
\* exactly one message after: the fixed error message (the error logged,
\* nothing of it in the reply) when the pipeline threw, the fixed "no
\* results" message when it returned undefined, and the formatted answer
\* only when it returned a result.
C3_OneReply ==
    /\ qpc # "done" => sent = <<>> /\ errors = <<>>
    /\ qpc = "done" =>
          /\ Len(sent) = 1
          /\ thrown # "none" => sent[1] = ErrorMessage /\ errors = <<thrown>>
          /\ thrown = "none" => errors = <<>>
          /\ (thrown = "none" /\ ~result.defined) => sent[1] = NoResultMessage
          /\ (thrown = "none" /\ result.defined) =>
                sent[1].text = AnswerTemplate /\ sent[1].answer = result.answer
          /\ sent[1].text = AnswerTemplate => thrown = "none" /\ result.defined

C3_Witness ==
    /\ qpc = "done"
    /\ thrown = "CompletionError"
    /\ completionCalls # <<>>
    /\ sent = <<ErrorMessage>>

\* the first place of a value in a list
FirstPlace(links, x) ==
    CHOOSE p \in DOMAIN links : links[p] = x /\ \A q \in 1..(p - 1) : links[q] # x

\* C4: the links of the reply are numbered 1, 2, ..., are pairwise distinct,
\* number min(3, distinct values of documentLinks), and link N is the N-th
\* distinct value of documentLinks in order of first occurrence.
C4_TopDistinctLinks ==
    (qpc = "done" /\ sent[1].text = AnswerTemplate) =>
        LET links == result.documentLinks
            shown == sent[1].links
        IN  /\ Len(shown) = Min(MaxShownLinks, Cardinality(Range(links)))
            /\ \A n \in DOMAIN shown :
                  /\ shown[n].n = n
                  /\ shown[n].url \in Range(links)
                  /\ \A m \in DOMAIN shown : m # n => shown[m].url # shown[n].url
                  /\ \A q \in 1..(FirstPlace(links, shown[n].url) - 1) :
                        \E m \in 1..(n - 1) : shown[m].url = links[q]

C4_Witness ==
    /\ qpc = "done"
    /\ result.documentLinks = <<LinkA, LinkB, LinkA, LinkC, LinkB>>
    /\ sent[1].links = <<[n |-> 1, url |-> LinkA], [n |-> 2, url |-> LinkB],
                         [n |-> 3, url |-> LinkC]>>

\* the docLink of a match of the store's response, "" when it has none
RawDocLink(match) ==
    IF match.metadata.docLink \in {Absent, Null} THEN <<>> ELSE match.metadata.docLink

\* the pageContent of a match of the store's response, "" when it has none
RawPageContent(match) ==
    IF match.metadata.pageContent \in {Absent, Null} THEN <<>>
    ELSE match.metadata.pageContent

\* the page contents of the first n matches, each followed by a space
RECURSIVE SpacedContents(_, _)
SpacedContents(matches, n) ==
    IF n = 0 THEN <<>>
    ELSE SpacedContents(matches, n - 1) \o RawPageContent(matches[n]) \o <<" ">>

\* C9: the reshaped response has the store's matches, one for one and in
\* order; the context sent to the completion endpoint is their pageContent
\* in that order joined by single spaces; documentLinks has one entry per
\* match in that order, the match's docLink or "" when it has none.
C9_RankedOrder ==
    LET ms == storeResponse.matches
    IN  /\ qpc \in {"completion", "returned", "done", "caught"} /\ queryResponse # NoResponse =>
              /\ Len(queryResponse.matches) = Len(ms)
              /\ \A k \in DOMAIN ms : queryResponse.matches[k].id = ms[k].id
        /\ completionCalls # <<>> =>
              /\ Len(completionCalls) = 1
              /\ completionCalls[1] \o <<" ">> = SpacedContents(ms, Len(ms))
        /\ result.defined =>
              /\ Len(result.documentLinks) = Len(ms)
              /\ \A k \in DOMAIN ms : result.documentLinks[k] = RawDocLink(ms[k])

C9_Witness ==
    /\ qpc = "returned"
    /\ result.defined
    /\ Len(storeResponse.matches) = 3
    /\ storeResponse.matches[1].metadata.docLink = Absent
    /\ storeResponse.matches[2].metadata.txtPath # Absent
    /\ storeResponse.matches[3].metadata.pageContent = Absent
    /\ result.documentLinks = <<<<>>, LinkA, LinkB>>
    /\ completionCalls = <<PageQ \o <<" ">> \o PageP \o <<" ">>>>

Places(ev) == {p \in DOMAIN ctrace : ctrace[p].ev = ev}

\* C8: a call reads the index list first; it issues a create request exactly
\* when the name is not in the list it read, at most once, for the given
\* name and dimension with metric "cosine", and then returns only after
\* waiting timeout ms; when the name is listed it neither creates nor waits.
C8_CreateIfAbsent ==
    /\ ctrace # <<>> => ctrace[1].ev = "listIndexes"
    /\ Cardinality(Places("listIndexes")) <= 1
    /\ Cardinality(Places("createIndex")) <= 1
    /\ \A p \in Places("createIndex") :
          /\ p = 2
          /\ ctrace[p] = CEvent("createIndex", args.indexName,
                                args.vectorDimension, "cosine", 0)
          /\ args.indexName \notin existingIndexes
    /\ cpc \in {"creating", "waiting", "returned"} =>
          (Places("createIndex") # {} <=> args.indexName \notin existingIndexes)
    /\ cpc \in {"idle", "listing", "thrown"} /\ Places("createIndex") # {} =>
          cpc = "thrown"
    /\ cpc = "returned" =>
          /\ ctrace[Len(ctrace)].ev = "return"
          /\ IF args.indexName \in existingIndexes
             THEN ctrace = <<CEvent("listIndexes", "", 0, "", 0),
                             CEvent("return", "", 0, "", 0)>>
             ELSE /\ Len(ctrace) = 4
                  /\ ctrace[3] = CEvent("wait", "", 0, "", args.timeout)
    /\ cpc # "returned" => Places("wait") = {} /\ Places("return") = {}

C8_Witness ==
    /\ cpc = "returned"
    /\ ncalls = 2
    /\ args.indexName = "docs"
    /\ "docs" \notin existingIndexes
    /\ args.timeout = DefaultTimeout
    /\ Len(ctrace) = 4
    /\ "docs" \in indexes

====
